---- MODULE Spec2Model ----
(***************************************************************************)
(* A model of the asset pipeline of ui-cloner-cli: WebsiteCloner.clone,    *)
(* downloadAssets, downloadAsset, resolveUrl, getFileName, the tracking    *)
(* filter, generateHTMLOutput and injectAssetsIntoHTML, in both variants   *)
(* of src/lib/website-cloner.js (the consolidating one, lines 10-562, and   *)
(* the per-file one, lines 573-1098).                                       *)
(*                                                                         *)
(* Strings are modelled by their structure.  A reference string (the raw   *)
(* value of an attribute or of a CSS url()) is a record                    *)
(*   [form, host, dir, name, query]                                        *)
(* standing for                                                            *)
(*   abs   https://<host>/<dir><name><query>                               *)
(*   srel  //<host>/<dir><name><query>                                     *)
(*   root  /<dir><name><query>                                             *)
(*   rel   <dir><name><query>                                              *)
(*   data  data:<dir><name>                                                *)
(*   js    javascript:<name>                                                *)
(*   frag  #<name>                                                          *)
(*   bad   a string the URL parser rejects even with a base                *)
(*   none  the attribute is absent                                         *)
(* and a file name is a record [stem, ts, ext] standing for                *)
(* <stem><ext>, or <stem><ts><ext> when ts > 0 (a Date.now() stamp).       *)
(***************************************************************************)
EXTENDS Integers, Sequences, FiniteSets, TLC

\* ------------------------------------------------------------------ bounds
\* Largest number of reference-carrying entries of a captured document.
MaxRefs == 2
\* Largest value of the wall clock (Date.now()); the clock starts at 1.
MaxTime == 2

\* --------------------------------------------------------------- strings
Name(stem, ext) == [stem |-> stem, ts |-> 0, ext |-> ext]
Stamped(stem, t, ext) == [stem |-> stem, ts |-> t, ext |-> ext]
NoName == Name("", "")

Ref(form, host, dir, name, query) ==
  [form |-> form, host |-> host, dir |-> dir, name |-> name, query |-> query]
NoRef == Ref("none", "", "", NoName, "")
AbsRef(host, dir, name, query) == Ref("abs", host, dir, name, query)
SrelRef(host, dir, name, query) == Ref("srel", host, dir, name, query)
RootRef(dir, name, query) == Ref("root", "", dir, name, query)
RelRef(dir, name, query) == Ref("rel", "", dir, name, query)

\* The page that is cloned: https://site/ (the url given to clone, which is
\* also the baseUrl of downloadAssets and pageInfo.baseUrl).
BaseUrl == [scheme |-> "https", host |-> "site", dir |-> "", name |-> NoName, query |-> ""]

\* An absolute URL, as the href of a parsed URL object.
Url(scheme, host, dir, name, query) ==
  [scheme |-> scheme, host |-> host, dir |-> dir, name |-> name, query |-> query]
Null == Url("null", "", "", NoName, "")

\* new URL(url) without a base: only a string with a scheme parses.
ParsesAlone(r) == r.form \in {"abs", "data", "js"}

\* new URL(url, baseUrl).href of resolveUrl; null when the parser throws.
\* A data: or javascript: URI parses (the base is ignored), so it resolves to
\* itself; a fragment resolves to the base with the fragment appended.
resolveUrl(r, base) ==
  CASE r.form = "abs"  -> Url("https", r.host, r.dir, r.name, r.query)
    [] r.form = "srel" -> Url(base.scheme, r.host, r.dir, r.name, r.query)
    [] r.form = "root" -> Url(base.scheme, base.host, r.dir, r.name, r.query)
    [] r.form = "rel"  -> Url(base.scheme, base.host, r.dir, r.name, r.query)
    [] r.form = "data" -> Url("data", "", r.dir, r.name, "")
    [] r.form = "js"   -> Url("javascript", "", "", r.name, "")
    [] r.form = "frag" -> Url(base.scheme, base.host, base.dir, base.name, "#" \o r.name.stem)
    [] OTHER           -> Null

\* String.prototype.replace(/[^a-zA-Z0-9.-]/g, "_") on the stems of the model.
Sanitize(stem) ==
  CASE stem = "a+b"       -> "a_b"
    [] stem = "png;base64" -> "png_base64"
    [] stem = "void(0)"    -> "void_0_"
    [] OTHER              -> stem

\* urlObj.hostname.replace(/[^a-zA-Z0-9]/g, "-") on the hosts of the model.
HostDash(host) ==
  CASE host = "cdn.io" -> "cdn-io"
    [] OTHER           -> host

\* String.prototype.toLowerCase on the extensions of the model.
ToLower(ext) ==
  CASE ext = ".PNG" -> ".png"
    [] OTHER        -> ext

validImageExts_AndText == {".jpg", ".jpeg", ".png", ".gif", ".svg", ".webp", ".ico",
                           ".html", ".css", ".js", ".py", ".bat"}

validImageExts == {".jpg", ".jpeg", ".png", ".gif", ".svg", ".webp", ".ico"}

\* The last component of a directory prefix ("img/" -> "img"), which is what
\* path.basename returns for a pathname that ends in "/".
DirBase(dir) ==
  CASE dir = "img/"           -> "img"
    [] dir = "pic/"           -> "pic"
    [] dir = "assets/images/" -> "images"
    [] dir = "assets/css/"    -> "css"
    [] dir = "assets/js/"     -> "js"
    [] OTHER                  -> ""

\* path.basename(urlObj.pathname)
Basename(r) ==
  IF r.name = NoName THEN Name(DirBase(r.dir), "") ELSE r.name

TypeExt(type) ==
  CASE type = "css" -> ".css" [] type = "js" -> ".js" [] OTHER -> ".png"

TypeDefault(type) ==
  CASE type = "css" -> "style" [] type = "js" -> "script" [] OTHER -> "image"


\* ------------------------------------------------------------ getFileName
\* getFileName of the consolidating variant (lines 357-393).  t is the value
\* Date.now() returns if the catch branch is taken.
getFileName1(r, type, t) ==
  IF ~ParsesAlone(r)
  THEN CASE type = "css" -> Name("style", ".css")
         [] type = "js"  -> Name("script", ".js")
         [] OTHER        -> Stamped("image_", t, ".png")
  ELSE LET b0 == Basename(r)
           b1 == IF b0.stem = "" /\ b0.ext = "" THEN Name(TypeDefault(type), "") ELSE b0
           b2 == [b1 EXCEPT !.stem = Sanitize(@)]
           b3 == IF b2.ext = "" THEN [b2 EXCEPT !.ext = TypeExt(type)] ELSE b2
       IN  IF type = "images" /\ ToLower(b3.ext) \notin validImageExts
           THEN [b3 EXCEPT !.ext = ".png"]
           ELSE b3

\* getFileName of the per-file variant (lines 873-903).
getFileName2(r, type, t) ==
  IF ~ParsesAlone(r)
  THEN Stamped(CASE type = "css" -> "style-" [] type = "js" -> "script-" [] OTHER -> "image-",
               t, TypeExt(type))
  ELSE LET b0 == Basename(r)
           b1 == IF b0.stem = "" /\ b0.ext = "" THEN Name(HostDash(r.host), "") ELSE b0
           b2 == [b1 EXCEPT !.stem = Sanitize(@)]
       IN  IF b2.ext = "" THEN [b2 EXCEPT !.ext = TypeExt(type)] ELSE b2

getFileName(v, r, type, t) ==
  IF v = 1 THEN getFileName1(r, type, t) ELSE getFileName2(r, type, t)

\* The attribute value a local path is written as: the file name itself in
\* the consolidating variant, path.join("assets", <kind>, fileName) in the
\* per-file variant.
KindDir(type) ==
  CASE type = "css" -> "assets/css/" [] type = "js" -> "assets/js/" [] OTHER -> "assets/images/"

LocalPath(v, type, fileName) ==
  IF v = 1 THEN RelRef("", fileName, "") ELSE RelRef(KindDir(type), fileName, "")

\* -------------------------------------------------------- tracking filter
\* isTrackingScript: src.includes(pattern) for one of the nine patterns.  Of the
\* strings of the model, these hosts and stems contain a pattern.
isTrackingScript(r) ==
  \/ r.host \in {"www.googletagmanager.com", "connect.facebook.net"}
  \/ r.name.stem \in {"gtag", "hotjar"}

\* isTrackingScriptContent: content.includes(pattern) for one of the thirteen
\* patterns.  Of the script texts of the model, these contain a pattern.
isTrackingScriptContent(text) ==
  text \in {"gtag('config','G-1')", "fbq('init')"}

\* --------------------------------------------------------------- document
\* A node of the parsed document ($ = load(html)).  tag is
\*   img (ref = src, srcset), icon (link rel=icon, ref = href),
\*   link (link rel=stylesheet, ref = href), style (body = CSS tokens),
\*   script (ref = src, body = the inline text), a (ref = href, target),
\*   viewport, description (meta name=viewport, meta name=description).
\* id tells the nodes of one document apart; it is no part of the markup.
Node(id, tag, ref, srcset, body) ==
  [id |-> id, tag |-> tag, ref |-> ref, srcset |-> srcset, body |-> body, target |-> ""]

\* A piece of style or script text: kind "text" (text), "url" (a CSS
\* url(<ref>)), "sheet"/"lib" (response.data of the stylesheet/script at src).
Token(kind, text, ref, src) ==
  [kind |-> kind, text |-> text, ref |-> ref, src |-> src]
Text(t) == Token("text", t, NoRef, Null)
CssUrl(r) == Token("url", "", r, Null)

\* One srcset candidate "<ref> <desc>".
Cand(r, desc) == [ref |-> r, desc |-> desc]

Doc(head, body) == [head |-> head, body |-> body]
EmptyDoc == Doc(<<>>, <<>>)
AllNodes(d) == d.head \o d.body

IsHeadTag(tag) == tag \in {"icon", "link", "style", "viewport", "description"}

RECURSIVE Filter(_, _)
\* The nodes of sequence s whose id is not in ids, in order.
Filter(s, ids) ==
  IF s = <<>> THEN <<>>
  ELSE IF Head(s).id \in ids THEN Filter(Tail(s), ids)
       ELSE <<Head(s)>> \o Filter(Tail(s), ids)

\* $(el).remove() for every node whose id is in ids.
RemoveNodes(d, ids) == Doc(Filter(d.head, ids), Filter(d.body, ids))

RECURSIVE WithTag(_, _)
\* $(selector): the nodes of s with a tag in tags, in document order.
WithTag(s, tags) ==
  IF s = <<>> THEN <<>>
  ELSE IF Head(s).tag \in tags THEN <<Head(s)>> \o WithTag(Tail(s), tags)
       ELSE WithTag(Tail(s), tags)

Select(d, tags) == WithTag(AllNodes(d), tags)

Ids(s) == {s[i].id : i \in 1..Len(s)}

NodeById(d, id) ==
  LET s == AllNodes(d) IN s[CHOOSE i \in 1..Len(s) : s[i].id = id]

\* A fresh node id for a node appended to d.
FreshId(d) ==
  LET ids == Ids(AllNodes(d)) IN
  IF ids = {} THEN 1 ELSE 1 + CHOOSE m \in ids : \A k \in ids : k <= m

\* The markup of a document: ids are not part of it.
Strip(d) ==
  LET S(s) == [i \in 1..Len(s) |-> [s[i] EXCEPT !.id = 0]]
  IN  Doc(S(d.head), S(d.body))

\* ------------------------------------------------- String.prototype.replace
\* TailMatch: <name><query> of b is a prefix of <name><query> of a.
TailMatch(b, a) == a.name = b.name /\ (b.query = "" \/ b.query = a.query)

\* The string of b occurs in the string of a (the stems of the model are no
\* substrings of one another, so an occurrence ends in the same file name).
Occurs(b, a) ==
  \/ a = b
  \/ /\ TailMatch(b, a)
     /\ CASE b.form = "rel"  -> /\ a.form \in {"abs", "srel", "root", "rel"}
                                /\ (b.dir = "" \/ b.dir = a.dir)
          [] b.form = "root" -> \/ /\ a.form \in {"abs", "srel", "root"}
                                   /\ (b.dir = "" \/ b.dir = a.dir)
                                \/ a.form = "rel" /\ b.dir = "" /\ a.dir # ""
          [] b.form = "srel" -> a.form \in {"abs", "srel"} /\ a.host = b.host /\ a.dir = b.dir
          [] b.form = "abs"  -> a.form = "abs" /\ a.host = b.host /\ a.dir = b.dir
          [] OTHER           -> FALSE

\* a with the occurrence of b replaced by local: local itself when b is all of
\* a, otherwise a string that is neither a nor a local path (form "spliced").
Splice(a, b, local) == IF a = b THEN local ELSE [a EXCEPT !.form = "spliced"]

\* srcset.replace(url, localPath) on a candidate list: the first occurrence.
ReplaceFirstCand(cands, r, local) ==
  IF \E j \in 1..Len(cands) : Occurs(r, cands[j].ref)
  THEN LET j == CHOOSE j \in 1..Len(cands) :
                  /\ Occurs(r, cands[j].ref)
                  /\ \A k \in 1..(j - 1) : ~Occurs(r, cands[k].ref)
       IN  [cands EXCEPT ![j].ref = Splice(@, r, local)]
  ELSE cands

\* updatedCSS.replace(imgUrl, localPath) on CSS text: the first occurrence.
ReplaceFirstCss(css, r, local) ==
  IF \E j \in 1..Len(css) : css[j].kind = "url" /\ Occurs(r, css[j].ref)
  THEN LET j == CHOOSE j \in 1..Len(css) :
                  /\ css[j].kind = "url" /\ Occurs(r, css[j].ref)
                  /\ \A k \in 1..(j - 1) : ~(css[k].kind = "url" /\ Occurs(r, css[k].ref))
       IN  [css EXCEPT ![j].ref = Splice(@, r, local)]
  ELSE css

\* ------------------------------------------------------- reference sites
\* One place of the document (or of the style text, id 0) where downloadAssets
\* found a reference that resolves: attr is src, href, srcset or css, k the
\* index of the srcset candidate or CSS token, type the getFileName type.
Site(id, attr, k, ref, type) ==
  [id |-> id, attr |-> attr, k |-> k, ref |-> ref, type |-> type]

\* if (src) { const fullUrl = this.resolveUrl(src, baseUrl); if (fullUrl) ...
Fetchable_NoNullCheck(r) == r # NoRef

Fetchable(r) == r # NoRef /\ resolveUrl(r, BaseUrl) # Null

RECURSIVE AttrSites(_, _, _)
\* The sites of the src/href attributes of the nodes s, in order.
AttrSites(s, attr, type) ==
  IF s = <<>> THEN <<>>
  ELSE (IF Fetchable(Head(s).ref)
        THEN <<Site(Head(s).id, attr, 0, Head(s).ref, type)>> ELSE <<>>)
       \o AttrSites(Tail(s), attr, type)

RECURSIVE CandSites(_, _, _)
\* The sites of the candidates k.. of one srcset.
CandSites(id, cands, k) ==
  IF k > Len(cands) THEN <<>>
  ELSE (IF Fetchable(cands[k].ref)
        THEN <<Site(id, "srcset", k, cands[k].ref, "images")>> ELSE <<>>)
       \o CandSites(id, cands, k + 1)

RECURSIVE SrcsetSites(_)
\* $("img[srcset]").each: the sites of every srcset of the img nodes s.
SrcsetSites(s) ==
  IF s = <<>> THEN <<>>
  ELSE CandSites(Head(s).id, Head(s).srcset, 1) \o SrcsetSites(Tail(s))

RECURSIVE CssSites(_, _)
\* The url(...) matches of the style text from token k on, data: URIs skipped.
CssSites(css, k) ==
  IF k > Len(css) THEN <<>>
  ELSE (IF css[k].kind = "url" /\ css[k].ref.form # "data" /\ Fetchable(css[k].ref)
        THEN <<Site(0, "css", k, css[k].ref, "images")>> ELSE <<>>)
       \o CssSites(css, k + 1)

\* getFileName reaches Date.now() for this site.
ReadsClock(v, site) == ~ParsesAlone(site.ref) /\ (v = 2 \/ site.type = "images")

\* The values Date.now() can return at the getFileName calls of the sites, one
\* after the other from time t0 on: the clock never runs backwards.
Stamps(v, sites, t0) ==
  {f \in [1..Len(sites) -> t0..MaxTime] :
     \A i \in 1..Len(sites) :
        LET prev == IF i = 1 THEN t0 ELSE f[i - 1]
        IN  IF ReadsClock(v, sites[i]) THEN prev <= f[i] ELSE f[i] = prev}

LastStamp(f, t0) == IF DOMAIN f = {} THEN t0 ELSE f[Len(f)]

\* const fileName = this.getFileName(src, type); const localPath = ...
SiteFile(v, site, t) == getFileName(v, site.ref, site.type, t)
SiteLocal(v, site, t) == LocalPath(v, site.type, SiteFile(v, site, t))

\* ------------------------------------------------------------ downloadAsset
\* The synchronous part of downloadAsset(url, localPath): return at once when
\* the URL is in downloadedAssets, otherwise issue the request.
downloadAsset(url, downloaded) ==
  IF url \in downloaded THEN "skipped" ELSE "requested"

\* The promises pushed for the sites: st is skipped (returned at once),
\* requested, failed (the request threw and was caught), writing (streaming to
\* the file), written (writer finished) or rejected (writer error).
StartTasks(v, sites, f, downloaded) ==
  [i \in 1..Len(sites) |->
     LET u == resolveUrl(sites[i].ref, BaseUrl)
     IN  [site |-> sites[i], url |-> u, path |-> SiteLocal(v, sites[i], f[i]),
          st |-> downloadAsset(u, downloaded)]]

RECURSIVE Requested(_)
\* The URLs of the requests that the tasks s issued, in order.
Requested(s) ==
  IF s = <<>> THEN <<>>
  ELSE (IF Head(s).st = "requested" THEN <<Head(s).url>> ELSE <<>>) \o Requested(Tail(s))

\* $(el).attr("src" | "href", localPath) for every src/href site, and
\* $(el).attr("srcset", srcset.replace(url, localPath)) for every srcset site:
\* srcset is the attribute as read before the loop over its candidates, so the
\* attribute ends as the original with the last candidate's replacement.
RewriteNode(v, n, sites, f) ==
  LET A == {i \in 1..Len(sites) : sites[i].id = n.id /\ sites[i].attr \in {"src", "href"}}
      S == {i \in 1..Len(sites) : sites[i].id = n.id /\ sites[i].attr = "srcset"}
      n1 == IF A = {} THEN n
            ELSE LET i == CHOOSE i \in A : TRUE
                 IN  [n EXCEPT !.ref = SiteLocal(v, sites[i], f[i])]
  IN  IF S = {} THEN n1
      ELSE LET i == CHOOSE i \in S : \A j \in S : j <= i
           IN  [n1 EXCEPT !.srcset =
                  ReplaceFirstCand(n.srcset, sites[i].ref, SiteLocal(v, sites[i], f[i]))]

RewriteDoc(v, d, sites, f) ==
  LET R(s) == [i \in 1..Len(s) |-> RewriteNode(v, s[i], sites, f)]
  IN  Doc(R(d.head), R(d.body))

RECURSIVE RewriteCss(_, _, _, _, _)
\* updatedCSS after the replacements of the css sites i.. were applied in turn.
RewriteCss(v, css, sites, f, i) ==
  IF i > Len(sites) THEN css
  ELSE RewriteCss(v,
         IF sites[i].attr = "css"
         THEN ReplaceFirstCss(css, sites[i].ref, SiteLocal(v, sites[i], f[i]))
         ELSE css,
         sites, f, i + 1)

\* ------------------------------------------------------ the captured pages
XPng == Name("x", ".png")
YPng == Name("y", ".png")

\* The elements a captured page is made of (ids are given in MakeDoc).
ImgCdn     == Node(0, "img", AbsRef("cdn.io", "img/", XPng, ""), <<>>, <<>>)
ImgCdnV2   == Node(0, "img", AbsRef("cdn.io", "img/", XPng, "?v=2"), <<>>, <<>>)
ImgCdnPic  == Node(0, "img", AbsRef("cdn.io", "pic/", XPng, ""), <<>>, <<>>)
ImgRoot    == Node(0, "img", RootRef("img/", XPng, ""), <<>>, <<>>)
ImgSite    == Node(0, "img", AbsRef("site", "img/", XPng, ""), <<>>, <<>>)
ImgSrcset  == Node(0, "img", NoRef,
                   <<Cand(AbsRef("cdn.io", "img/", XPng, ""), "1x"),
                     Cand(AbsRef("cdn.io", "img/", YPng, ""), "2x")>>, <<>>)
IconCdn    == Node(0, "icon", AbsRef("cdn.io", "img/", XPng, ""), <<>>, <<>>)
LinkCss    == Node(0, "link", AbsRef("cdn.io", "", Name("a", ".css"), ""), <<>>, <<>>)
StyleBg    == Node(0, "style", NoRef, <<>>,
                   <<Text("body{color:red}"), CssUrl(AbsRef("cdn.io", "img/", XPng, ""))>>)
ScriptGtm  == Node(0, "script", AbsRef("www.googletagmanager.com", "", Name("gtag", ".js"), ""),
                   <<>>, <<>>)
ScriptApp  == Node(0, "script", AbsRef("cdn.io", "", Name("app", ".js"), ""), <<>>, <<>>)
InlineGtag == Node(0, "script", NoRef, <<>>, <<Text("gtag('config','G-1')")>>)
InlineApp  == Node(0, "script", NoRef, <<>>, <<Text("main()")>>)
Anchor     == Node(0, "a", RootRef("", Name("about", ""), ""), <<>>, <<>>)

NodePool ==
  {ImgCdn, ImgCdnV2, ImgCdnPic, ImgRoot, ImgSite, ImgSrcset, IconCdn, LinkCss, StyleBg,
   ScriptGtm, ScriptApp, InlineGtag, InlineApp, Anchor}

\* How many entries of the document an element counts for.
Weight(n) == IF n.srcset # <<>> THEN Len(n.srcset) ELSE 1

RECURSIVE TotalWeight(_)
TotalWeight(s) == IF s = <<>> THEN 0 ELSE Weight(Head(s)) + TotalWeight(Tail(s))

\* The element lists of at most max entries.
NodeLists(max) ==
  {s \in UNION {[1..n -> NodePool] : n \in 0..max} : TotalWeight(s) <= max}

\* The parsed page of an element list: ids are positions, head elements go to
\* <head>, the others to <body>.
MakeDoc(s) ==
  LET t == [i \in 1..Len(s) |-> [s[i] EXCEPT !.id = i]]
  IN  Doc(SelectSeq(t, LAMBDA n : IsHeadTag(n.tag)),
          SelectSeq(t, LAMBDA n : ~IsHeadTag(n.tag)))

\* response.data of the stylesheet at url: the sheet a.css holds one url().
ServerCss(url) ==
  <<Token("sheet", "", NoRef, url)>>
  \o (IF url.name.stem = "a"
      THEN <<CssUrl(RootRef("img/", Name("bg", ".png"), ""))>> ELSE <<>>)

\* response.data of the script at url.
ServerJs(url) == <<Token("lib", "", NoRef, url)>>

\* What the AI collaborator may return for a page: the page itself, or a page
\* of its own making (an image it kept, a tracking script it kept).
AiPage == MakeDoc(<<ImgCdn, ScriptGtm>>)
AiOutputs(page) == {page, AiPage}

\* "\n", appended after every source of a bundle.
NL == Token("nl", "", NoRef, Null)

\* String.prototype.trim() leaves something.
TrimNonEmpty(text) == \E i \in 1..Len(text) : text[i].kind # "nl"

StyleCss == RelRef("", Name("style", ".css"), "")
ScriptJs == RelRef("", Name("script", ".js"), "")

\* ------------------------------------------------------ generateHTMLOutput
ScriptText(n) == IF n.body = <<>> THEN "" ELSE n.body[1].text

\* The script elements generateHTMLOutput removes: a tracking src, or inline
\* content with a tracking signature.
IsTrackingNode(n) ==
  /\ n.tag = "script"
  /\ \/ n.ref # NoRef /\ isTrackingScript(n.ref)
     \/ ScriptText(n) # "" /\ isTrackingScriptContent(ScriptText(n))

TrackingIds(d) ==
  {AllNodes(d)[i].id : i \in {j \in 1..Len(AllNodes(d)) : IsTrackingNode(AllNodes(d)[j])}}

\* href.startsWith("/") && !href.startsWith("//"): made absolute, target set.
FixAnchor(n) ==
  IF n.tag = "a" /\ n.ref.form = "root"
  THEN [n EXCEPT !.ref = AbsRef(BaseUrl.host, n.ref.dir, n.ref.name, n.ref.query),
                 !.target = "_blank"]
  ELSE n

HasTag(d, tag) == \E i \in 1..Len(AllNodes(d)) : AllNodes(d)[i].tag = tag

\* $("style:contains('scroll-behavior')").length
HasEnhancement(d) ==
  \E i \in 1..Len(AllNodes(d)) :
     /\ AllNodes(d)[i].tag = "style"
     /\ \E k \in 1..Len(AllNodes(d)[i].body) : AllNodes(d)[i].body[k].text = "scroll-behavior"

\* pageInfo.description of extractPageInfo: the page has a meta description.
HasDescription(page) == HasTag(page, "description")

\* generateHTMLOutput after the removal of scripts: anchors, meta tags and the
\* enhancement styles; page is the page the pageInfo was extracted from.
EnhanceHtml(d1, page) ==
  LET d2 == Doc([i \in 1..Len(d1.head) |-> FixAnchor(d1.head[i])],
                [i \in 1..Len(d1.body) |-> FixAnchor(d1.body[i])])
      d3 == IF HasTag(d2, "viewport") THEN d2
            ELSE Doc(<<Node(FreshId(d2), "viewport", NoRef, <<>>, <<>>)>> \o d2.head, d2.body)
      d4 == IF ~HasTag(d3, "description") /\ HasDescription(page)
            THEN Doc(Append(d3.head, Node(FreshId(d3), "description", NoRef, <<>>, <<>>)), d3.body)
            ELSE d3
  IN  IF HasEnhancement(d4) THEN d4
      ELSE Doc(Append(d4.head, Node(FreshId(d4), "style", NoRef, <<>>,
                                    <<Text("scroll-behavior")>>)), d4.body)

generateHTMLOutput_KeepScripts(d0, page) == EnhanceHtml(d0, page)

\* The document generateHTMLOutput writes to index.html for html d0.
generateHTMLOutput(d0, page) == EnhanceHtml(RemoveNodes(d0, TrackingIds(d0)), page)

\* ---------------------------------------------------- injectAssetsIntoHTML
RECURSIVE AppendAll(_, _, _, _)
\* $(where).append(<tag with ref>) for every path of paths, in order.
AppendAll(d, tag, paths, inHead) ==
  IF paths = <<>> THEN d
  ELSE LET n == Node(FreshId(d), tag, Head(paths), <<>>, <<>>)
       IN  AppendAll(IF inHead THEN Doc(Append(d.head, n), d.body)
                     ELSE Doc(d.head, Append(d.body, n)),
                     tag, Tail(paths), inHead)

injectAssetsIntoHTML(aiHTML, assetMap) ==
  AppendAll(AppendAll(aiHTML, "link", assetMap.css, TRUE), "script", assetMap.js, FALSE)

\* ------------------------------------------------------------------ state
VARIABLES
  variant,           \* 1: the consolidating WebsiteCloner, 2: the per-file one
  pc,                \* where clone is
  aiOn,              \* the condition of the AI branch of clone
  html,              \* page.content(), the captured markup
  processed,         \* the markup after the AI branch
  dom,               \* $ of downloadAssets, then finalHTML of clone
  combinedCSS,       \* the style text gathered so far
  updatedCSS,        \* the style text with url()s replaced
  combinedJS,        \* the script text gathered so far
  queue,             \* ids of the link / script elements still to be fetched
  tasks,             \* the promises of downloadAsset, in push order
  downloadedAssets,  \* this.downloadedAssets
  netlog,            \* every request issued, in order
  files,             \* the asset files on disk: [path, url] tells whose bytes
  cssFile,           \* style.css on disk
  jsFile,            \* script.js on disk
  assetsResult,      \* count and assetMap returned by downloadAssets
  indexHtml,         \* index.html on disk
  now,               \* the last value Date.now() returned
  browser,           \* none, open, closed
  outcome,           \* how clone ends: none (not yet), returned, or the error thrown
  run,               \* 1 for the first clone of this WebsiteCloner, 2 for the second
  prev,              \* what the first clone left, once a second one was started
  agent              \* an AIAgent3: currentModel, and the API calls of its requests

vars == <<agent, run, prev, variant, pc, aiOn, html, processed, dom, combinedCSS, updatedCSS, combinedJS,
          queue, tasks, downloadedAssets, netlog, files, cssFile, jsFile, assetsResult,
          indexHtml, now, browser, outcome>>

NoFile == [written |-> FALSE, text |-> <<>>]
NoIndex == [written |-> FALSE, doc |-> EmptyDoc]
NoResult == [count |-> 0, css |-> <<>>, js |-> <<>>]
NoPrev == [input |-> "none", names |-> <<>>, index |-> EmptyDoc]

\* new AIAgent3(apiKey): currentModel is the primary model.  pc tells where
\* executePrompt is (idle: not running; first, second: in its first or second
\* makeAPICall), req counts the requests, calls lists every makeAPICall with
\* its request, its model and its result (pending, ok, failed).
NewAgent == [currentModel |-> "primary", pc |-> "idle", req |-> 0, calls |-> <<>>]

InitWith(pages) ==
  /\ variant \in {1, 2}
  /\ pc = "start"
  /\ aiOn = FALSE
  /\ html \in pages
  /\ processed = EmptyDoc
  /\ dom = EmptyDoc
  /\ combinedCSS = <<>>
  /\ updatedCSS = <<>>
  /\ combinedJS = <<>>
  /\ queue = <<>>
  /\ tasks = <<>>
  /\ downloadedAssets = {}
  /\ netlog = <<>>
  /\ files = {}
  /\ cssFile = NoFile
  /\ jsFile = NoFile
  /\ assetsResult = NoResult
  /\ indexHtml = NoIndex
  /\ now = 1
  /\ browser = "none"
  /\ outcome = "none"
  /\ run = 1
  /\ prev = NoPrev
  /\ agent = NewAgent

Pages == {MakeDoc(s) : s \in NodeLists(MaxRefs)}

Init == InitWith(Pages)

\* -------------------------------------------------------------------- clone
\* The condition of the AI branch: aiProcessor && options.useAI !== false in
\* the consolidating variant, aiProcessor && options.useAI === true in the
\* per-file one.
AiEnabled(v, aiProcessor, useAI) ==
  IF v = 1 THEN aiProcessor /\ useAI # "false" ELSE aiProcessor /\ useAI = "true"

\* clone up to puppeteer.launch.
Launch(aiProcessor, useAI) ==
  /\ pc = "start"
  /\ pc' = "launched"
  /\ browser' = "open"
  /\ aiOn' = AiEnabled(variant, aiProcessor, useAI)
  /\ UNCHANGED <<agent, run, prev, variant, html, processed, dom, combinedCSS, updatedCSS, combinedJS, queue,
                 tasks, downloadedAssets, netlog, files, cssFile, jsFile, assetsResult,
                 indexHtml, now, outcome>>

\* puppeteer.launch throws: it is called before the try block, so the error
\* leaves clone at once and there is no browser to close.
LaunchFails ==
  /\ pc = "start"
  /\ pc' = "done"
  /\ outcome' = "capture error"
  /\ UNCHANGED <<agent, run, prev, variant, aiOn, html, processed, dom, combinedCSS, updatedCSS, combinedJS,
                 queue, tasks, downloadedAssets, netlog, files, cssFile, jsFile,
                 assetsResult, indexHtml, now, browser>>

\* newPage, goto, content, extractPageInfo succeed.
Capture ==
  /\ pc = "launched"
  /\ pc' = "captured"
  /\ UNCHANGED <<agent, run, prev, variant, aiOn, html, processed, dom, combinedCSS, updatedCSS, combinedJS,
                 queue, tasks, downloadedAssets, netlog, files, cssFile, jsFile,
                 assetsResult, indexHtml, now, browser, outcome>>

\* Where control goes when a statement of the try block throws: clone has no
\* catch, and its finally block (browser.close) runs before the error leaves.
ThrowsTo_NoFinally == "done"

ThrowsTo == "closing"

\* One of them throws: the finally block runs next, then the error leaves clone.
CaptureFails ==
  /\ pc = "launched"
  /\ pc' = ThrowsTo
  /\ outcome' = "capture error"
  /\ UNCHANGED <<agent, run, prev, variant, aiOn, html, processed, dom, combinedCSS, updatedCSS, combinedJS,
                 queue, tasks, downloadedAssets, netlog, files, cssFile, jsFile,
                 assetsResult, indexHtml, now, browser>>

\* The markup clone goes on with when the AI branch ran and returned out, or
\* threw (ok false), or did not run.
AiResult(ok, out) == IF aiOn /\ ok THEN out ELSE html

\* The AI branch, and the markup downloadAssets is called with: finalHTML in
\* the consolidating variant, the original html in the per-file one.
AiStep(ok, out) ==
  /\ pc = "captured"
  /\ pc' = "assets"
  /\ processed' = AiResult(ok, out)
  /\ dom' = IF variant = 1 THEN processed' ELSE html
  /\ UNCHANGED <<agent, run, prev, variant, aiOn, html, combinedCSS, updatedCSS, combinedJS, queue, tasks,
                 downloadedAssets, netlog, files, cssFile, jsFile, assetsResult, indexHtml,
                 now, browser, outcome>>

\* ------------------------------------------ downloadAssets, per-file variant
\* The sites of the per-file downloadAssets, in the order of its loops:
\* stylesheets, scripts that are not tracking, images, icons.
V2Sites(d) ==
  AttrSites(Select(d, {"link"}), "href", "css")
  \o AttrSites(SelectSeq(Select(d, {"script"}), LAMBDA n : ~isTrackingScript(n.ref)), "src", "js")
  \o AttrSites(Select(d, {"img"}), "src", "images")
  \o AttrSites(Select(d, {"icon"}), "href", "images")

\* All of its loops run without a suspension: every downloadAsset call is made
\* before any response is handled.
V2_Scan ==
  /\ pc = "assets" /\ variant = 2
  /\ LET sites == V2Sites(dom) IN
     \E f \in Stamps(2, sites, now) :
        /\ tasks' = StartTasks(2, sites, f, downloadedAssets)
        /\ netlog' = netlog \o Requested(tasks')
        /\ dom' = RewriteDoc(2, dom, sites, f)
        /\ now' = LastStamp(f, now)
  /\ pc' = "await"
  /\ UNCHANGED <<agent, run, prev, variant, aiOn, html, processed, combinedCSS, updatedCSS, combinedJS, queue,
                 downloadedAssets, files, cssFile, jsFile, assetsResult, indexHtml, browser,
                 outcome>>

\* ---------------------------------------- downloadAssets, consolidating variant
RECURSIVE Bodies(_)
\* combined += $(el).html() + "\n" for the elements s.
Bodies(s) == IF s = <<>> THEN <<>> ELSE Head(s).body \o <<NL>> \o Bodies(Tail(s))

\* 1. the inline style blocks are gathered and removed; the loop over the
\* stylesheet links starts.
V1_ExtractStyles ==
  /\ pc = "assets" /\ variant = 1
  /\ LET styles == Select(dom, {"style"}) IN
     /\ combinedCSS' = Bodies(styles)
     /\ dom' = RemoveNodes(dom, Ids(styles))
     /\ queue' = [i \in 1..Len(Select(dom', {"link"})) |-> Select(dom', {"link"})[i].id]
  /\ pc' = "css"
  /\ UNCHANGED <<agent, run, prev, variant, aiOn, html, processed, updatedCSS, combinedJS, tasks,
                 downloadedAssets, netlog, files, cssFile, jsFile, assetsResult, indexHtml,
                 now, browser, outcome>>

\* A failed axios.get in the stylesheet or script loop leaves downloadAssets as
\* an exception: never, the catch block of the loop body only warns.
FetchThrows_NoCatch(ok) == ~ok

FetchThrows(ok) == FALSE

\* $(el).remove() of the stylesheet and script loops follows the await of the
\* fetch inside the try block: it is reached only when the fetch succeeded.
RemovedAfterFetch_Always(ok) == TRUE

RemovedAfterFetch(ok) == ok

\* 2. one stylesheet link: fetched, appended to combinedCSS and removed, or
\* left in place when the fetch fails.
V1_FetchCss(ok) ==
  /\ pc = "css" /\ queue # <<>>
  /\ LET el == NodeById(dom, Head(queue))
         absolute == resolveUrl(el.ref, BaseUrl)
     IN  IF el.ref = NoRef \/ absolute = Null
         THEN /\ ok
              /\ UNCHANGED <<pc, dom, combinedCSS, netlog, outcome>>
         ELSE /\ netlog' = Append(netlog, absolute)
              /\ IF ok
                 THEN /\ combinedCSS' = combinedCSS \o ServerCss(absolute) \o <<NL>>
                      /\ dom' = RemoveNodes(dom, {el.id})
                      /\ UNCHANGED <<pc, outcome>>
                 ELSE /\ pc' = IF FetchThrows(ok) THEN "closing" ELSE pc
                      /\ outcome' = IF FetchThrows(ok) THEN "fetch error" ELSE outcome
                      /\ dom' = IF RemovedAfterFetch(ok) THEN RemoveNodes(dom, {el.id}) ELSE dom
                      /\ UNCHANGED combinedCSS
  /\ queue' = Tail(queue)
  /\ UNCHANGED <<agent, run, prev, variant, aiOn, html, processed, updatedCSS, combinedJS, tasks,
                 downloadedAssets, files, cssFile, jsFile, assetsResult, indexHtml, now,
                 browser>>

\* The inline scripts step 3 gathers: no src, no tracking signature.
InlineScripts(d) ==
  SelectSeq(Select(d, {"script"}),
            LAMBDA n : n.ref = NoRef /\ ~isTrackingScriptContent(ScriptText(n)))

\* style.css is written and linked when the style text is not blank; 3. the
\* inline scripts are gathered and removed; the loop over script[src] starts.
V1_WriteCss ==
  /\ pc = "css" /\ queue = <<>>
  /\ cssFile' = IF TrimNonEmpty(combinedCSS) THEN [written |-> TRUE, text |-> combinedCSS]
                ELSE cssFile
  /\ LET d1 == IF TrimNonEmpty(combinedCSS)
               THEN Doc(Append(dom.head, Node(FreshId(dom), "link", StyleCss, <<>>, <<>>)), dom.body)
               ELSE dom
         inl == InlineScripts(d1)
     IN  /\ combinedJS' = Bodies(inl)
         /\ dom' = RemoveNodes(d1, Ids(inl))
         /\ queue' = LET q == SelectSeq(Select(dom', {"script"}), LAMBDA n : n.ref # NoRef)
                     IN  [i \in 1..Len(q) |-> q[i].id]
  /\ pc' = "js"
  /\ UNCHANGED <<agent, run, prev, variant, aiOn, html, processed, combinedCSS, updatedCSS, tasks,
                 downloadedAssets, netlog, files, jsFile, assetsResult, indexHtml, now,
                 browser, outcome>>

\* if (!src || this.isTrackingScript(src)) { $(el).remove(); continue; }
DropsScript_Never(src) == FALSE

DropsScript(src) == src = NoRef \/ isTrackingScript(src)

\* 4. one script[src]: a tracking script is removed without a fetch; another
\* one is fetched, appended to combinedJS and removed, or left in place when
\* the fetch fails.
V1_FetchJs(ok) ==
  /\ pc = "js" /\ queue # <<>>
  /\ LET el == NodeById(dom, Head(queue))
         absolute == resolveUrl(el.ref, BaseUrl)
     IN  IF DropsScript(el.ref)
         THEN /\ ok
              /\ dom' = RemoveNodes(dom, {el.id})
              /\ UNCHANGED <<pc, combinedJS, netlog, outcome>>
         ELSE IF absolute = Null
         THEN /\ ok
              /\ UNCHANGED <<pc, dom, combinedJS, netlog, outcome>>
         ELSE /\ netlog' = Append(netlog, absolute)
              /\ IF ok
                 THEN /\ combinedJS' = combinedJS \o ServerJs(absolute) \o <<NL>>
                      /\ dom' = RemoveNodes(dom, {el.id})
                      /\ UNCHANGED <<pc, outcome>>
                 ELSE /\ pc' = IF FetchThrows(ok) THEN "closing" ELSE pc
                      /\ outcome' = IF FetchThrows(ok) THEN "fetch error" ELSE outcome
                      /\ dom' = IF RemovedAfterFetch(ok) THEN RemoveNodes(dom, {el.id}) ELSE dom
                      /\ UNCHANGED combinedJS
  /\ queue' = Tail(queue)
  /\ UNCHANGED <<agent, run, prev, variant, aiOn, html, processed, combinedCSS, updatedCSS, tasks,
                 downloadedAssets, files, cssFile, jsFile, assetsResult, indexHtml, now,
                 browser>>

\* The sites of step 5 and 6: img src, srcset candidates, url() of the style text.
V1ImageSites(d, css) ==
  AttrSites(Select(d, {"img"}), "src", "images")
  \o SrcsetSites(Select(d, {"img"}))
  \o CssSites(css, 1)

\* The sites of step 7: icon links.
V1IconSites(d) == AttrSites(Select(d, {"icon"}), "href", "images")

\* script.js is written and referenced when the script text is not blank; 5.
\* and 6. run without a suspension.  When the style text changed, style.css is
\* written again and downloadAssets is suspended before step 7; otherwise step
\* 7 runs at once.
V1_ScanImages ==
  /\ pc = "js" /\ queue = <<>>
  /\ jsFile' = IF TrimNonEmpty(combinedJS) THEN [written |-> TRUE, text |-> combinedJS]
               ELSE jsFile
  /\ LET d1 == IF TrimNonEmpty(combinedJS)
               THEN Doc(dom.head, Append(dom.body, Node(FreshId(dom), "script", ScriptJs, <<>>, <<>>)))
               ELSE dom
         sites == V1ImageSites(d1, combinedCSS)
         icons == V1IconSites(d1)
     IN  \E f \in Stamps(1, sites, now) :
            LET css == RewriteCss(1, combinedCSS, sites, f, 1)
                d2 == RewriteDoc(1, d1, sites, f)
            IN  /\ updatedCSS' = css
                /\ IF css # combinedCSS
                   THEN /\ tasks' = StartTasks(1, sites, f, downloadedAssets)
                        /\ dom' = d2
                        /\ now' = LastStamp(f, now)
                        /\ pc' = "cssrewrite"
                   ELSE \E g \in Stamps(1, icons, LastStamp(f, now)) :
                           /\ tasks' = StartTasks(1, sites, f, downloadedAssets)
                                       \o StartTasks(1, icons, g, downloadedAssets)
                           /\ dom' = RewriteDoc(1, d2, icons, g)
                           /\ now' = LastStamp(g, LastStamp(f, now))
                           /\ pc' = "await"
  /\ netlog' = netlog \o Requested(tasks')
  /\ UNCHANGED <<agent, run, prev, variant, aiOn, html, processed, combinedCSS, combinedJS, queue,
                 downloadedAssets, files, cssFile, assetsResult, indexHtml, browser, outcome>>

\* The second write of style.css is done; 7. the icon links.
V1_ScanIcons ==
  /\ pc = "cssrewrite"
  /\ cssFile' = [written |-> TRUE, text |-> updatedCSS]
  /\ LET icons == V1IconSites(dom) IN
     \E g \in Stamps(1, icons, now) :
        LET new == StartTasks(1, icons, g, downloadedAssets) IN
        /\ tasks' = tasks \o new
        /\ netlog' = netlog \o Requested(new)
        /\ dom' = RewriteDoc(1, dom, icons, g)
        /\ now' = LastStamp(g, now)
  /\ pc' = "await"
  /\ UNCHANGED <<agent, run, prev, variant, aiOn, html, processed, combinedCSS, updatedCSS, combinedJS, queue,
                 downloadedAssets, files, jsFile, assetsResult, indexHtml, browser, outcome>>

\* ------------------------------------------------- downloadAsset, continued
Suspended == pc \in {"cssrewrite", "await"}

\* The request of task i fails (timeout, status, transport): caught, the
\* promise resolves.
AssetFails(i) ==
  /\ Suspended
  /\ tasks[i].st = "requested"
  /\ tasks' = [tasks EXCEPT ![i].st = "failed"]
  /\ UNCHANGED <<agent, run, prev, variant, pc, aiOn, html, processed, dom, combinedCSS, updatedCSS, combinedJS,
                 queue, downloadedAssets, netlog, files, cssFile, jsFile, assetsResult,
                 indexHtml, now, browser, outcome>>

\* this.downloadedAssets.add(url) is made at this event of a download: in the
\* callback of the writer's "finish", not when the response arrives.
Registers_OnResponse(event) == event = "response"

Registers(event) == event = "finish"

\* The response of task i arrives: fs.createWriteStream(localPath) replaces
\* whatever the path held, and the body is piped into it.
AssetResponds(i) ==
  /\ Suspended
  /\ tasks[i].st = "requested"
  /\ tasks' = [tasks EXCEPT ![i].st = "writing"]
  /\ files' = {e \in files : e.path # tasks[i].path}
              \cup {[path |-> tasks[i].path, url |-> tasks[i].url]}
  /\ downloadedAssets' = IF Registers("response") THEN downloadedAssets \cup {tasks[i].url}
                         ELSE downloadedAssets
  /\ UNCHANGED <<agent, run, prev, variant, pc, aiOn, html, processed, dom, combinedCSS, updatedCSS, combinedJS,
                 queue, netlog, cssFile, jsFile, assetsResult, indexHtml,
                 now, browser, outcome>>

\* writer.on("finish"): the URL is registered and the promise resolves.
WriterFinish(i) ==
  /\ Suspended
  /\ tasks[i].st = "writing"
  /\ tasks' = [tasks EXCEPT ![i].st = "written"]
  /\ downloadedAssets' = IF Registers("finish") THEN downloadedAssets \cup {tasks[i].url}
                         ELSE downloadedAssets
  /\ UNCHANGED <<agent, run, prev, variant, pc, aiOn, html, processed, dom, combinedCSS, updatedCSS, combinedJS,
                 queue, netlog, files, cssFile, jsFile, assetsResult, indexHtml, now, browser,
                 outcome>>

\* writer.on("error"): the promise rejects.
WriterError(i) ==
  /\ Suspended
  /\ tasks[i].st = "writing"
  /\ tasks' = [tasks EXCEPT ![i].st = "rejected"]
  /\ UNCHANGED <<agent, run, prev, variant, pc, aiOn, html, processed, dom, combinedCSS, updatedCSS, combinedJS,
                 queue, downloadedAssets, netlog, files, cssFile, jsFile, assetsResult,
                 indexHtml, now, browser, outcome>>

\* writer.on("error") while downloadAssets is still suspended in the second
\* write of style.css: Promise.allSettled has not been reached, so the promise
\* rejects with no handler attached.  A runtime that throws on an unhandled
\* rejection ends the process here; one that only warns goes on (WriterError).
WriterErrorUnhandled(i) ==
  /\ pc = "cssrewrite"
  /\ tasks[i].st = "writing"
  /\ tasks' = [tasks EXCEPT ![i].st = "rejected"]
  /\ pc' = "crashed"
  /\ outcome' = "unhandled rejection"
  /\ UNCHANGED <<agent, run, prev, variant, aiOn, html, processed, dom, combinedCSS, updatedCSS, combinedJS,
                 queue, downloadedAssets, netlog, files, cssFile, jsFile, assetsResult,
                 indexHtml, now, browser>>

\* ------------------------------------------------------ the end of the run
Settled(t) == t.st \in {"skipped", "failed", "written", "rejected"}

RECURSIVE PathsOf(_, _)
\* assetMap.css / assetMap.js of the per-file variant: the local paths pushed.
PathsOf(s, type) ==
  IF s = <<>> THEN <<>>
  ELSE (IF Head(s).site.type = type THEN <<Head(s).path>> ELSE <<>>) \o PathsOf(Tail(s), type)

\* The result of downloadAssets once Promise.allSettled has resolved.
AssetsResult(v, ts, css, js) ==
  [count |-> Cardinality({i \in 1..Len(ts) : ts[i].st # "rejected"}),
   css   |-> IF v = 1 THEN (IF css # <<>> THEN <<StyleCss>> ELSE <<>>) ELSE PathsOf(ts, "css"),
   js    |-> IF v = 1 THEN (IF js # <<>> THEN <<ScriptJs>> ELSE <<>>) ELSE PathsOf(ts, "js")]

\* finalHTML of clone after downloadAssets returned.
FinalHtml(v, ai, proc, d, res) ==
  IF v = 2 /\ ai /\ res.count > 0
  THEN injectAssetsIntoHTML(proc, [css |-> res.css, js |-> res.js])
  ELSE d

\* Promise.allSettled resolves, downloadAssets returns, clone picks finalHTML.
AllSettled ==
  /\ pc = "await"
  /\ \A i \in 1..Len(tasks) : Settled(tasks[i])
  /\ assetsResult' = AssetsResult(variant, tasks, combinedCSS, combinedJS)
  /\ dom' = FinalHtml(variant, aiOn, processed, dom, assetsResult')
  /\ pc' = "generate"
  /\ UNCHANGED <<agent, run, prev, variant, aiOn, html, processed, combinedCSS, updatedCSS, combinedJS, queue,
                 tasks, downloadedAssets, netlog, files, cssFile, jsFile, indexHtml, now,
                 browser, outcome>>

\* generateHTMLOutput writes index.html; clone has its return value.
GenerateHTMLOutput ==
  /\ pc = "generate"
  /\ indexHtml' = [written |-> TRUE, doc |-> generateHTMLOutput(dom, html)]
  /\ outcome' = "returned"
  /\ pc' = "closing"
  /\ UNCHANGED <<agent, run, prev, variant, aiOn, html, processed, dom, combinedCSS, updatedCSS, combinedJS,
                 queue, tasks, downloadedAssets, netlog, files, cssFile, jsFile, assetsResult,
                 now, browser>>

\* finally { await browser.close(); }
CloseBrowser ==
  /\ pc = "closing"
  /\ browser' = "closed"
  /\ pc' = "done"
  /\ UNCHANGED <<agent, run, prev, variant, aiOn, html, processed, dom, combinedCSS, updatedCSS, combinedJS,
                 queue, tasks, downloadedAssets, netlog, files, cssFile, jsFile, assetsResult,
                 indexHtml, now, outcome>>

\* Every step of clone but the successful launch.
CloneSteps ==
  \/ LaunchFails
  \/ Capture
  \/ CaptureFails
  \/ \E ok \in BOOLEAN, out \in AiOutputs(html) : AiStep(ok, out)
  \/ V2_Scan
  \/ V1_ExtractStyles
  \/ \E ok \in BOOLEAN : V1_FetchCss(ok)
  \/ V1_WriteCss
  \/ \E ok \in BOOLEAN : V1_FetchJs(ok)
  \/ V1_ScanImages
  \/ V1_ScanIcons
  \/ \E i \in 1..Len(tasks) : AssetFails(i)
  \/ \E i \in 1..Len(tasks) : AssetResponds(i)
  \/ \E i \in 1..Len(tasks) : WriterFinish(i)
  \/ \E i \in 1..Len(tasks) : WriterError(i)
  \/ \E i \in 1..Len(tasks) : WriterErrorUnhandled(i)
  \/ AllSettled
  \/ GenerateHTMLOutput
  \/ CloseBrowser

\* clone is called with any aiProcessor and any options.useAI.
Next ==
  \/ \E aiProcessor \in BOOLEAN, useAI \in {"true", "false", "undefined"} :
        Launch(aiProcessor, useAI)
  \/ CloneSteps

Spec == Init /\ [][Next]_vars


\* ------------------------------------------------- pages of special references
\* Largest number of entries of a page made of the references below.
MaxSchemeRefs == 2

\* data:image/png;base64, javascript:void(0), #top, and a string the URL parser
\* rejects with any base (https://exa mple/x.png).
DataRef   == Ref("data", "", "image/", Name("png;base64", ""), "")
ScriptRef == Ref("js", "", "", Name("void(0)", ""), "")
FragRef   == Ref("frag", "", "", Name("top", ""), "")
BadRef    == Ref("bad", "exa mple", "", XPng, "")

\* One element per discovery surface (img src, icon href, srcset, CSS url()),
\* an img whose src does not parse, and a plain image, stylesheet and script.
SchemePool ==
  {Node(0, "img", DataRef, <<>>, <<>>),
   Node(0, "icon", ScriptRef, <<>>, <<>>),
   Node(0, "img", NoRef, <<Cand(FragRef, "1x")>>, <<>>),
   Node(0, "style", NoRef, <<>>, <<CssUrl(FragRef)>>),
   Node(0, "img", BadRef, <<>>, <<>>),
   ImgCdn, LinkCss, ScriptApp}

InitRefs ==
  InitWith({MakeDoc(s) : s \in UNION {[1..n -> SchemePool] : n \in 0..MaxSchemeRefs}})

SpecRefs == InitRefs /\ [][Next]_vars


\* ------------------------------------------------------ pages of bundle sources
\* Largest number of entries of a page made of the style and script sources below.
MaxBundleSources == 2

\* <style></style> and <script></script>, sources without content, and the
\* style and script sources with content.
BundlePool ==
  {Node(0, "style", NoRef, <<>>, <<>>), Node(0, "script", NoRef, <<>>, <<>>),
   StyleBg, LinkCss, InlineApp, ScriptApp}

InitBundles ==
  InitWith({MakeDoc(s) : s \in UNION {[1..n -> BundlePool] : n \in 0..MaxBundleSources}})

SpecBundles == InitBundles /\ [][Next]_vars


\* ------------------------------------------------------------ pages of anchors
\* Largest number of entries of a page made of the hyperlinks below.
MaxAnchors == 2

\* <a href>: /about, page.html, ../x, https://cdn.io/docs, //cdn.io/docs, #top;
\* and a plain image, stylesheet and script.
AnchorPool ==
  {Anchor,
   Node(0, "a", RelRef("", Name("page", ".html"), ""), <<>>, <<>>),
   Node(0, "a", RelRef("../", Name("x", ""), ""), <<>>, <<>>),
   Node(0, "a", AbsRef("cdn.io", "", Name("docs", ""), ""), <<>>, <<>>),
   Node(0, "a", SrelRef("cdn.io", "", Name("docs", ""), ""), <<>>, <<>>),
   Node(0, "a", FragRef, <<>>, <<>>),
   ImgCdn, LinkCss, ScriptApp}

InitAnchors ==
  InitWith({MakeDoc(s) : s \in UNION {[1..n -> AnchorPool] : n \in 0..MaxAnchors}})

SpecAnchors == InitAnchors /\ [][Next]_vars


\* ---------------------------------------------------- pages of awkward names
\* Largest number of entries of a page made of the elements below.
MaxNamed == 2

\* Images, an icon and a CSS url() whose URLs end in the names of the files
\* that clone itself writes (index.html, serve.bat, style.css), script.js given
\* as a relative reference, which getFileName cannot parse, a name without
\* extension that needs cleaning, and an upper-case image extension.
NamedPool ==
  {Node(0, "img", AbsRef("site", "", Name("index", ".html"), ""), <<>>, <<>>),
   Node(0, "icon", AbsRef("cdn.io", "", Name("serve", ".bat"), ""), <<>>, <<>>),
   Node(0, "style", NoRef, <<>>, <<CssUrl(AbsRef("cdn.io", "", Name("style", ".css"), ""))>>),
   Node(0, "img", RelRef("", Name("script", ".js"), ""), <<>>, <<>>),
   Node(0, "img", AbsRef("cdn.io", "", Name("a+b", ""), ""), <<>>, <<>>),
   Node(0, "img", AbsRef("cdn.io", "", Name("x", ".PNG"), ""), <<>>, <<>>),
   LinkCss, ScriptApp}

InitNamed ==
  InitWith({MakeDoc(s) : s \in UNION {[1..n -> NamedPool] : n \in 0..MaxNamed}})

SpecNamed == InitNamed /\ [][Next]_vars


\* ---------------------------------------------------------------- the CLI
\* UICloneCLI.cloneWebsite around clone: what the spinner ends with, and whether
\* cloneWebsite itself throws.  Its catch block reports the error and returns.
cloneWebsite(cloneOutcome) ==
  IF cloneOutcome = "returned"
  THEN [spinner |-> "succeed", thrown |-> FALSE]
  ELSE [spinner |-> "fail", thrown |-> FALSE]

\* The action of the command: process.exit(1) when cloneWebsite throws,
\* otherwise the process ends by itself with status 0.
programAction(r) == IF r.thrown THEN 1 ELSE 0


\* The options object commander hands to the action: an option declared as
\* --no-ai is stored under the key ai (true by default, false when the flag is
\* given); no key noAi is ever set.  apiKey is the value of -k, if given.
commanderOptions(noAiFlag, apiKeyOption) ==
  [ai |-> ~noAiFlag, noAi |-> FALSE, apiKey |-> apiKeyOption]

\* The first part of cloneWebsite: whether getApiKey reads the stored key,
\* this.aiProcessor afterwards, and the useAI passed to clone.  configKey tells
\* whether the config file holds a key, aiProcessor0 is this.aiProcessor before.
cloneOptions(options, configKey, aiProcessor0) ==
  LET keyRead == ~options.noAi /\ ~options.apiKey
      hasKey  == options.apiKey \/ (keyRead /\ configKey)
      aiProc  == IF ~options.noAi /\ hasKey THEN TRUE ELSE aiProcessor0
  IN  [keyRead |-> keyRead, aiProcessor |-> aiProc,
       useAI |-> IF ~options.noAi /\ aiProc THEN "true" ELSE "false"]


\* ------------------------------------------------------------- a second run
\* Largest number of entries of the page of a WebsiteCloner that clones twice.
MaxRerunRefs == 1

InitRerun == InitWith({MakeDoc(s) : s \in NodeLists(MaxRerunRefs)})

\* The site and the local path of every downloadAsset call of a run.
Names(ts) == [i \in 1..Len(ts) |-> [site |-> ts[i].site, path |-> ts[i].path]]

\* The same WebsiteCloner (UICloneCLI keeps one) clones again into the same
\* output directory: the page as it was (input "same"), or the page that the
\* first run wrote (input "output").  this.downloadedAssets, the files and the
\* clock are what they were; everything local to clone is new.
CloneAgain(input) ==
  /\ pc = "done" /\ run = 1
  /\ input = "output" => indexHtml.written
  /\ run' = 2
  /\ prev' = [input |-> input, names |-> Names(tasks), index |-> indexHtml.doc]
  /\ html' = IF input = "output" THEN indexHtml.doc ELSE html
  /\ pc' = "start"
  /\ aiOn' = FALSE
  /\ processed' = EmptyDoc
  /\ dom' = EmptyDoc
  /\ combinedCSS' = <<>>
  /\ updatedCSS' = <<>>
  /\ combinedJS' = <<>>
  /\ queue' = <<>>
  /\ tasks' = <<>>
  /\ netlog' = <<>>
  /\ assetsResult' = NoResult
  /\ browser' = "none"
  /\ outcome' = "none"
  /\ UNCHANGED <<agent, variant, downloadedAssets, files, cssFile, jsFile, indexHtml, now>>

NextRerun ==
  \/ Next
  \/ \E input \in {"same", "output"} : CloneAgain(input)

SpecRerun == InitRerun /\ [][NextRerun]_vars


\* ----------------------------------------------------------------- AIAgent3
\* Largest number of executePrompt requests on one AIAgent3.
MaxRequests == 5

\* The variables of clone.
cloneVars == <<run, prev, variant, pc, aiOn, html, processed, dom, combinedCSS, updatedCSS,
               combinedJS, queue, tasks, downloadedAssets, netlog, files, cssFile, jsFile,
               assetsResult, indexHtml, now, browser, outcome>>

\* executePrompt is called: the first makeAPICall goes to this.currentModel.
executePrompt ==
  /\ agent.pc = "idle" /\ agent.req < MaxRequests
  /\ agent' = [agent EXCEPT !.pc = "first", !.req = @ + 1,
                            !.calls = Append(@, [req |-> agent.req + 1,
                                                 model |-> agent.currentModel,
                                                 result |-> "pending"])]
  /\ UNCHANGED cloneVars

\* makeAPICall returns: executePrompt returns its result.
makeAPICallReturns ==
  /\ agent.pc \in {"first", "second"}
  /\ agent' = [agent EXCEPT !.pc = "idle", !.calls[Len(agent.calls)].result = "ok"]
  /\ UNCHANGED cloneVars

\* makeAPICall throws.  After the first call, when currentModel is the primary
\* model, currentModel becomes the fallback model and the call is made again;
\* otherwise executePrompt throws.
makeAPICallThrows ==
  /\ agent.pc \in {"first", "second"}
  /\ IF agent.pc = "first" /\ agent.currentModel = "primary"
     THEN agent' = [agent EXCEPT !.pc = "second", !.currentModel = "fallback",
                                 !.calls = Append([@ EXCEPT ![Len(@)].result = "failed"],
                                                  [req |-> agent.req, model |-> "fallback",
                                                   result |-> "pending"])]
     ELSE agent' = [agent EXCEPT !.pc = "idle", !.calls[Len(agent.calls)].result = "failed"]
  /\ UNCHANGED cloneVars

NextAgent ==
  \/ executePrompt
  \/ makeAPICallReturns
  \/ makeAPICallThrows

InitAgent == InitWith({EmptyDoc}) /\ variant = 2

SpecAgent == InitAgent /\ [][NextAgent]_vars


\* ------------------------------------------------------- the --no-ai flag
\* ui-clone <url> --no-ai [-k key] on a fresh UICloneCLI, up to puppeteer.launch.
LaunchNoAi(apiKeyOption, configKey) ==
  LET o == cloneOptions(commanderOptions(TRUE, apiKeyOption), configKey, FALSE)
  IN  Launch(o.aiProcessor, o.useAI)

NextNoAi ==
  \/ \E apiKeyOption \in BOOLEAN, configKey \in BOOLEAN : LaunchNoAi(apiKeyOption, configKey)
  \/ CloneSteps

SpecNoAi == InitRerun /\ [][NextNoAi]_vars


\* ------------------------------------------------------- failing file writes
\* fs.ensureDir or fs.writeFile of downloadAssets or generateHTMLOutput throws
\* (the asset directories, style.css, script.js, the rewritten style.css,
\* index.html, the server scripts): nothing catches it before clone's finally.
WriteFails ==
  /\ pc \in {"assets", "css", "js", "cssrewrite", "generate"}
  /\ pc' = ThrowsTo
  /\ outcome' = "write error"
  /\ UNCHANGED <<agent, run, prev, variant, aiOn, html, processed, dom, combinedCSS, updatedCSS, combinedJS,
                 queue, tasks, downloadedAssets, netlog, files, cssFile, jsFile,
                 assetsResult, indexHtml, now, browser>>

NextClose ==
  \/ Next
  \/ WriteFails

SpecClose == InitRerun /\ [][NextClose]_vars


\* ------------------------------------------------------------------ progress
\* The steps that are bound to happen once they can: the steps of clone and
\* downloadAssets themselves, the end of page capture (goto has a timeout of
\* 30 s), and the end of every request (axios is given a timeout of 10 s, so a
\* request succeeds or throws).  Nothing bounds the time between the response
\* and the writer's "finish" or "error": the body is piped without a timeout,
\* and an error of the response stream is not forwarded to the writer.
Progress ==
  \/ \E aiProcessor \in BOOLEAN, useAI \in {"true", "false", "undefined"} :
        Launch(aiProcessor, useAI)
  \/ LaunchFails
  \/ Capture
  \/ CaptureFails
  \/ \E ok \in BOOLEAN, out \in AiOutputs(html) : AiStep(ok, out)
  \/ V2_Scan
  \/ V1_ExtractStyles
  \/ \E ok \in BOOLEAN : V1_FetchCss(ok)
  \/ V1_WriteCss
  \/ \E ok \in BOOLEAN : V1_FetchJs(ok)
  \/ V1_ScanImages
  \/ V1_ScanIcons
  \/ \E i \in 1..Len(tasks) : AssetFails(i)
  \/ \E i \in 1..Len(tasks) : AssetResponds(i)
  \/ AllSettled
  \/ GenerateHTMLOutput
  \/ CloseBrowser

SpecLive == InitRerun /\ [][Next]_vars /\ WF_vars(Progress)


\* ================================================================== claims
TaskIdx == 1..Len(tasks)
Issued(t) == t.st # "skipped"
Range(q) == {q[i] : i \in 1..Len(q)}
NodeSet(d) == Range(AllNodes(d))
AssetTags == {"img", "icon", "link", "script"}

\* C1: within one clone run downloadAsset issues at most one network request
\* for a URL, however many reference sites resolve to it.
C1_OneRequestPerUrl ==
  \A i, j \in TaskIdx :
     i # j /\ tasks[i].url = tasks[j].url => ~(Issued(tasks[i]) /\ Issued(tasks[j]))

\* C2: after downloadAssets rewrote the document, two src/href reference
\* sites that resolve to the same absolute URL carry the same local path.
C2_SameUrlSamePath ==
  pc = "await" =>
    \A i, j \in TaskIdx :
       /\ tasks[i].url = tasks[j].url
       /\ tasks[i].site.attr \in {"src", "href"}
       /\ tasks[j].site.attr \in {"src", "href"}
       => NodeById(dom, tasks[i].site.id).ref = NodeById(dom, tasks[j].site.id).ref

\* C3: two reference sites that resolve to different absolute URLs are never
\* assigned the same local file path.
C3_DistinctUrlDistinctPath ==
  \A i, j \in TaskIdx : tasks[i].url # tasks[j].url => tasks[i].path # tasks[j].path

\* C4: a second run over the same page assigns every reference site the local
\* file name the first run assigned to it.
C4_SameNamesOnRerun ==
  run = 2 /\ prev.input = "same" =>
    \A i \in TaskIdx, j \in 1..Len(prev.names) :
       tasks[i].site = prev.names[j].site => tasks[i].path = prev.names[j].path

\* C5: an image or icon reference whose fetch failed still holds its original
\* raw value in the document downloadAssets returns.
C5_FailedKeepsRaw ==
  pc = "await" =>
    \A i \in TaskIdx :
       /\ tasks[i].st = "failed"
       /\ tasks[i].site.type = "images"
       /\ tasks[i].site.attr \in {"src", "href"}
       => NodeById(dom, tasks[i].site.id).ref = tasks[i].site.ref

TrackingScripts ==
  {n \in NodeSet(html) \cup NodeSet(processed) :
     n.tag = "script" /\ n.ref # NoRef /\ isTrackingScript(n.ref)}

\* C7: index.html holds no script element for a script whose src is classified
\* as tracking, neither with the original src nor with a local src made of it.
C7_NoTrackingScriptInIndex ==
  indexHtml.written =>
    \A n \in TrackingScripts, m \in NodeSet(indexHtml.doc) :
       m.tag = "script" =>
         /\ m.ref # n.ref
         /\ \A t \in 1..MaxTime : m.ref # LocalPath(variant, "js", getFileName(variant, n.ref, "js", t))

\* index.html of the per-file variant is written, AI rewriting was used, and
\* the page had a tracking script.
C7_Witness ==
  /\ indexHtml.written /\ variant = 2 /\ aiOn /\ pc = "done"
  /\ \E n \in NodeSet(html) : n \in TrackingScripts

\* C8: a script reference classified as tracking is never fetched, and neither
\* its content nor an inline script body with a tracking signature is in the
\* behavior bundle.
C8_TrackingNeverFetchedNorBundled ==
  /\ \A n \in TrackingScripts :
        /\ resolveUrl(n.ref, BaseUrl) \notin Range(netlog)
        /\ \A tok \in Range(combinedJS) \cup Range(jsFile.text) :
              tok.src # resolveUrl(n.ref, BaseUrl)
  /\ \A tok \in Range(combinedJS) \cup Range(jsFile.text) :
        ~isTrackingScriptContent(tok.text)

\* script.js was written by a run of the consolidating variant whose page had a
\* script with a tracking src.
C8_Witness ==
  /\ pc = "done" /\ variant = 1 /\ jsFile.written
  /\ \E n \in NodeSet(html) : n \in TrackingScripts

\* C9: in index.html no img src, srcset candidate, icon href, stylesheet href
\* or script src still holds the remote reference of an asset that was
\* fetched successfully.
C9_NoRemoteRefForFetched ==
  pc = "done" /\ outcome = "returned" =>
    \A i \in TaskIdx :
       tasks[i].st = "written" /\ tasks[i].site.ref # tasks[i].path =>
         \A m \in NodeSet(indexHtml.doc) :
            m.tag \in AssetTags =>
              /\ m.ref # tasks[i].site.ref
              /\ \A k \in 1..Len(m.srcset) : m.srcset[k].ref # tasks[i].site.ref

\* Every asset reference of the document is a local path.
OnlyLocal(d) ==
  \A m \in NodeSet(d) :
     m.tag \in AssetTags =>
       /\ m.ref.form \in {"none", "rel"}
       /\ \A k \in 1..Len(m.srcset) : m.srcset[k].ref.form = "rel"

\* C10: the rewrite (no AI), run on a document that is the output of the
\* rewrite and holds only local asset paths, yields that document again.
C10_RewriteIdempotent ==
  /\ run = 2 /\ prev.input = "output" /\ OnlyLocal(prev.index)
  /\ pc = "done" /\ outcome = "returned" /\ ~aiOn
  => Strip(indexHtml.doc) = Strip(prev.index)

\* The document downloadAssets was called with.
Scanned == IF variant = 1 THEN processed ELSE html

\* The first piece of bundle text that a style or script source contributes.
FirstTok(n) ==
  CASE n.tag = "link"                   -> Token("sheet", "", NoRef, resolveUrl(n.ref, BaseUrl))
    [] n.tag = "script" /\ n.ref # NoRef -> Token("lib", "", NoRef, resolveUrl(n.ref, BaseUrl))
    [] OTHER                            -> n.body[1]

Has(text, tok) == \E k \in 1..Len(text) : text[k] = tok
Pos(text, tok) == CHOOSE k \in 1..Len(text) : text[k] = tok /\ \A h \in 1..(k - 1) : text[h] # tok

\* Sources a and b, a before b in the document, whose contents are both in
\* text, are in text in that order.
InOrder(text, tags) ==
  LET s == Select(Scanned, tags) IN
  \A i, j \in 1..Len(s) :
     /\ i < j
     /\ (s[i].ref # NoRef \/ s[i].body # <<>>) /\ (s[j].ref # NoRef \/ s[j].body # <<>>)
     /\ FirstTok(s[i]) # FirstTok(s[j])
     /\ Has(text, FirstTok(s[i])) /\ Has(text, FirstTok(s[j]))
     => Pos(text, FirstTok(s[i])) < Pos(text, FirstTok(s[j]))

\* C11: style.css and script.js hold their sources, inline or linked, in the
\* order in which the sources appear in the document.
C11_BundleInDocumentOrder ==
  variant = 1 =>
    /\ cssFile.written => InOrder(cssFile.text, {"style", "link"})
    /\ jsFile.written => InOrder(jsFile.text, {"script"})

\* downloadAssets has returned.
Returned == pc \in {"generate", "closing", "done"} /\ outcome # "capture error"

HasRef(d, tag, r) == \E n \in NodeSet(d) : n.tag = tag /\ n.ref = r

\* C12: style.css is written, linked from the document and listed in the
\* assetMap all together or not at all, namely when the style text is not
\* blank; the same for script.js and the script text.
C12_BundleWrittenIffNonEmpty ==
  variant = 1 /\ run = 1 /\ Returned =>
    /\ cssFile.written <=> TrimNonEmpty(combinedCSS)
    /\ cssFile.written <=> HasRef(dom, "link", StyleCss)
    /\ cssFile.written <=> assetsResult.css = <<StyleCss>>
    /\ jsFile.written <=> TrimNonEmpty(combinedJS)
    /\ jsFile.written <=> HasRef(dom, "script", ScriptJs)
    /\ jsFile.written <=> assetsResult.js = <<ScriptJs>>

\* The stylesheet links of the scanned document were all fetched: none is left.
AllSheetsFetched ==
  \A n \in NodeSet(Scanned) : n.tag = "link" => ~HasRef(dom, "link", n.ref)

\* C13: when the document has a style source and every stylesheet fetch
\* succeeded, index.html holds no style element and exactly one stylesheet
\* link, the one to style.css.
C13_OnlyStyleCssLink ==
  /\ variant = 1 /\ pc = "done" /\ outcome = "returned"
  /\ \E n \in NodeSet(Scanned) : n.tag \in {"style", "link"}
  /\ AllSheetsFetched
  => /\ \A m \in NodeSet(indexHtml.doc) : m.tag # "style"
     /\ Cardinality({i \in 1..Len(indexHtml.doc.head) : indexHtml.doc.head[i].tag = "link"}) = 1
     /\ \A m \in NodeSet(indexHtml.doc) : m.tag = "link" => m.ref = StyleCss

\* The raw references of a document: src/href values, srcset candidates and
\* url()s of inline style text.
RawRefs(d) ==
  {n.ref : n \in NodeSet(d)}
  \cup UNION {{n.srcset[k].ref : k \in 1..Len(n.srcset)} : n \in NodeSet(d)}
  \cup UNION {{n.body[k].ref : k \in 1..Len(n.body)} : n \in NodeSet(d)}

SchemeForms == {"data", "js", "frag"}

\* C14: a reference that begins with data:, javascript: or # does not resolve,
\* starts no download, and stays as it is in the document.
C14_SchemeRefsNotFetchable ==
  /\ \A r \in RawRefs(html) : r.form \in SchemeForms => resolveUrl(r, BaseUrl) = Null
  /\ \A i \in TaskIdx : tasks[i].site.ref.form \notin SchemeForms
  /\ pc = "await" =>
       \A n \in NodeSet(Scanned) :
          n.tag \in {"img", "icon"} /\ n.ref.form \in SchemeForms => HasRef(dom, n.tag, n.ref)

\* C15: a reference that cannot be resolved makes resolveUrl return null; no
\* download is started for it, it stays as it is in the document, and every
\* other img reference of the document is still processed.
C15_UnresolvableLeftAlone ==
  /\ \A r \in RawRefs(html) : r.form = "bad" => resolveUrl(r, BaseUrl) = Null
  /\ \A i \in TaskIdx : tasks[i].site.ref.form # "bad" /\ tasks[i].url # Null
  /\ pc = "await" =>
       \A n \in NodeSet(Scanned) :
          n.tag = "img" /\ n.ref # NoRef =>
            IF resolveUrl(n.ref, BaseUrl) = Null
            THEN HasRef(dom, "img", n.ref)
            ELSE \E i \in TaskIdx : tasks[i].site.id = n.id /\ tasks[i].site.attr = "src"
  /\ indexHtml.written /\ ~aiOn =>
       \A n \in NodeSet(html) :
          n.tag = "img" /\ n.ref.form = "bad" => HasRef(indexHtml.doc, "img", n.ref)

\* A finished run whose page had an unresolvable img src, still in index.html,
\* next to an image that was downloaded.
C15_Witness ==
  /\ pc = "done" /\ outcome = "returned" /\ ~aiOn
  /\ HasRef(html, "img", BadRef) /\ HasRef(indexHtml.doc, "img", BadRef)
  /\ \E i \in TaskIdx : tasks[i].st = "written" /\ tasks[i].site.ref.form = "abs"
                        /\ tasks[i].site.attr = "src"

InFlight(t) == t.st \in {"requested", "writing"}

\* C16: while a fetch of the run is still in flight, no bundle file has been
\* written, no src or href has been replaced by a local path, and index.html
\* has not been written.
C16_ConsolidateAfterAllSettled ==
  (\E i \in TaskIdx : InFlight(tasks[i])) =>
    /\ ~cssFile.written /\ ~jsFile.written /\ ~indexHtml.written
    /\ \A j \in TaskIdx :
          tasks[j].site.attr \in {"src", "href"} =>
            NodeById(dom, tasks[j].site.id).ref = tasks[j].site.ref

\* C17: a call of downloadAssets returns (Promise.allSettled resolves),
\* whatever happens to each asset; a run that the runtime ends on an unhandled
\* rejection is left aside.
C17_DownloadAssetsReturns ==
  (pc = "assets") ~> (pc \in {"generate", "crashed"})

\* C18: when page capture fails, clone raises the error, nothing was fetched
\* and no index.html or bundle was written, and the command reports the
\* failure and exits with a non-zero status.
C18_CaptureFailureIsFatal ==
  run = 1 /\ pc = "done" /\ outcome = "capture error" =>
    /\ netlog = <<>> /\ tasks = <<>>
    /\ ~indexHtml.written /\ ~cssFile.written /\ ~jsFile.written
    /\ cloneWebsite(outcome).spinner = "fail"
    /\ programAction(cloneWebsite(outcome)) # 0

\* C19: the count downloadAssets returns is the number of assets that were
\* downloaded and written in this run.
C19_CountIsFetched ==
  run = 1 /\ Returned =>
    assetsResult.count = Cardinality({i \in TaskIdx : tasks[i].st = "written"})

\* The local path the mapping of the run gives reference r of tag-kind node n,
\* if an asset with r's URL was fetched.
MappedTo(r, m) ==
  \E i \in TaskIdx : /\ tasks[i].st = "written"
                     /\ tasks[i].url = resolveUrl(r, BaseUrl)
                     /\ m = tasks[i].path

\* C20: when the AI rewrite ran and returned other markup, the references
\* downloadAssets found are those of the captured markup, and the images and
\* icons of index.html are those of the AI markup, each with the local path of
\* its fetched asset in place of the remote reference.
C20_AiMarkupWithMapping ==
  aiOn /\ processed # html /\ pc = "done" /\ outcome = "returned" =>
    /\ \A i \in TaskIdx :
          tasks[i].site.attr \in {"src", "href"} =>
            \E n \in NodeSet(html) : n.id = tasks[i].site.id /\ n.ref = tasks[i].site.ref
    /\ \A m \in NodeSet(indexHtml.doc) :
          m.tag \in {"img", "icon"} =>
            \E n \in NodeSet(processed) :
               n.tag = m.tag /\ (m.ref = n.ref \/ MappedTo(n.ref, m.ref))
    /\ \A n \in NodeSet(processed) :
          n.tag \in {"img", "icon"} /\ (\E m \in RawRefs(indexHtml.doc) : m # n.ref /\ MappedTo(n.ref, m))
            => ~HasRef(indexHtml.doc, n.tag, n.ref)

\* C21: in the second clone of one WebsiteCloner every asset URL the document
\* refers to is requested in that run: none is skipped on account of the
\* first run.
C21_NoDedupLeak ==
  run = 2 =>
    \A i \in TaskIdx : tasks[i].st = "skipped" => tasks[i].url \in Range(netlog)

\* C22: with --no-ai, cloneWebsite reads no API key, creates no AI processor
\* and passes useAI false, and clone does not take its AI branch.
C22_NoAiFlagDisablesAi ==
  /\ \A apiKeyOption \in BOOLEAN, configKey \in BOOLEAN :
        LET o == cloneOptions(commanderOptions(TRUE, apiKeyOption), configKey, FALSE)
        IN  ~o.keyRead /\ ~o.aiProcessor /\ o.useAI = "false"
  /\ ~aiOn

\* C23: the first API call of every request goes to the primary model, and
\* the fallback model is called for a request only after the call of the
\* primary model for that request has failed.
C23_PrimaryFirst ==
  \A k \in 1..Len(agent.calls) :
     LET c == agent.calls[k] IN
     /\ (\A h \in 1..(k - 1) : agent.calls[h].req # c.req) => c.model = "primary"
     /\ c.model = "fallback" =>
          \E h \in 1..(k - 1) : /\ agent.calls[h].req = c.req
                                /\ agent.calls[h].model = "primary"
                                /\ agent.calls[h].result = "failed"

C25_CssUrlSubstitution ==
  variant = 1 /\ run = 1 /\ pc = "done" /\ outcome = "returned" /\ cssFile.written =>
    \A i \in TaskIdx :
       tasks[i].site.attr = "css" =>
         /\ tasks[i].st = "written" => cssFile.text[tasks[i].site.k].ref = tasks[i].path
         /\ tasks[i].st = "failed" => cssFile.text[tasks[i].site.k].ref = tasks[i].site.ref

\* C26: after downloadAssets of the consolidating variant, a srcset whose
\* candidates all resolve has every candidate replaced by its local path,
\* with the descriptors and the order of the candidates unchanged.
C26_SrcsetAllCandidates ==
  variant = 1 /\ pc = "await" =>
    \A n \in NodeSet(Scanned) :
       /\ n.tag = "img" /\ n.srcset # <<>>
       /\ \A k \in 1..Len(n.srcset) : resolveUrl(n.srcset[k].ref, BaseUrl) # Null
       => LET m == NodeById(dom, n.id) IN
          /\ Len(m.srcset) = Len(n.srcset)
          /\ \A k \in 1..Len(n.srcset) :
                /\ m.srcset[k].desc = n.srcset[k].desc
                /\ \E i \in TaskIdx : /\ tasks[i].site.id = n.id
                                      /\ tasks[i].site.attr = "srcset"
                                      /\ tasks[i].site.k = k
                                      /\ m.srcset[k].ref = tasks[i].path

\* The stylesheet links (tag "link") or non-tracking script[src] elements (tag
\* "script") of the scanned document.
LinkedSources(tag) ==
  {n \in NodeSet(Scanned) :
     n.tag = tag /\ n.ref # NoRef /\ (tag = "script" => ~isTrackingScript(n.ref))}

\* Element n is in the document as it was.
StillThere(n) == \E m \in NodeSet(dom) : m.id = n.id /\ m.tag = n.tag /\ m.ref = n.ref

\* As many of the linked sources of a URL are gone from the document as the
\* bundle text holds copies of that URL's content; the others are unchanged.
RemovedIffMerged(tag, text) ==
  \A n \in LinkedSources(tag) :
     Cardinality({m \in LinkedSources(tag) : m.ref = n.ref /\ ~StillThere(m)})
       = Cardinality({k \in 1..Len(text) : text[k] = FirstTok(n)})

\* C27: after downloadAssets of the consolidating variant, a stylesheet link
\* or non-tracking script element is gone from the document exactly when its
\* content is in the bundle; one whose fetch failed is still there with its
\* original href or src, and nothing of it is in the bundle.
C27_RemovedIffMerged ==
  variant = 1 /\ pc = "await" =>
    RemovedIffMerged("link", combinedCSS) /\ RemovedIffMerged("script", combinedJS)

\* downloadAssets of the consolidating variant has gone through a page with a
\* stylesheet link whose fetch failed and a script whose fetch succeeded.
C27_Witness ==
  /\ variant = 1 /\ pc = "await"
  /\ \E n \in LinkedSources("link") : StillThere(n) /\ resolveUrl(n.ref, BaseUrl) \in Range(netlog)
  /\ \E n \in LinkedSources("script") : ~StillThere(n) /\ Has(combinedJS, FirstTok(n))

\* The hyperlinks of a document.
Anchors(d) == {n \in NodeSet(d) : n.tag = "a"}

\* C28: in the index.html that generateHTMLOutput wrote no anchor has a
\* relative href (root-relative or path-relative), and an anchor whose href
\* was absolute, scheme-relative or a fragment is as it was.
C28_NoRelativeAnchor ==
  indexHtml.written =>
    /\ \A n \in Anchors(indexHtml.doc) : n.ref.form \notin {"root", "rel"}
    /\ \A n \in Anchors(dom) :
          n.ref.form \in {"abs", "srel", "frag"} => n \in Anchors(indexHtml.doc)

\* The page of the browser is in use: clone is between launch and its finally.
PageInUse == pc \notin {"start", "closing", "done", "crashed"}

\* C29: once clone has launched the browser, clone does not end with the
\* browser open, whether it returns or throws (capture, asset or file-write
\* failure; an AI failure is caught and clone goes on); the browser is open as
\* long as the page is in use, and it is closed by the one step of the finally
\* block, which finds it open and ends clone.
C29_BrowserClosedOnce ==
  /\ [](pc = "done" => browser # "open")
  /\ [](PageInUse => browser = "open")
  /\ [][/\ browser' = "closed" /\ browser # "closed" => pc = "closing"
        /\ pc = "closing" /\ pc' # pc => browser = "open" /\ browser' = "closed" /\ pc' = "done"]_vars

\* clone has ended by throwing the error of a file write, after a request for
\* an asset had failed, and the browser is closed.
C29_Witness ==
  /\ pc = "done" /\ browser = "closed" /\ outcome = "write error"
  /\ \E i \in TaskIdx : tasks[i].st = "failed"

\* .jpg/.jpeg/.png/.gif/.svg/.webp/.ico, in either case of the model's names.
ImageExts == {".jpg", ".jpeg", ".png", ".gif", ".svg", ".webp", ".ico", ".PNG"}

\* The files that clone itself writes into the output directory.
OwnFiles ==
  {Name("index", ".html"), Name("style", ".css"), Name("script", ".js"),
   Name("serve", ".py"), Name("serve", ".bat")}

\* A name of [a-zA-Z0-9._-] only: cleaning it changes nothing.
OnlySafeChars(f) == Sanitize(f.stem) = f.stem

\* C30: in the consolidating variant every name that getFileName(url, "images")
\* returned for an image, icon or CSS url() has only characters of
\* [a-zA-Z0-9._-] and ends in an image extension, and no download is written
\* to index.html, style.css, script.js, serve.py or serve.bat.
C30_ImageNamesAreSafe ==
  variant = 1 =>
    /\ \A i \in TaskIdx :
          /\ tasks[i].path.dir = ""
          /\ OnlySafeChars(tasks[i].path.name)
          /\ tasks[i].path.name.ext \in ImageExts
    /\ \A e \in files : e.path.name \notin OwnFiles

\* The image at https://site/index.html has been written to index.png, and
\* the one given as script.js to a stamped image_<t>.png.
C30_Witness ==
  /\ variant = 1
  /\ \E e \in files : e.url.name = Name("index", ".html") /\ e.path.name = Name("index", ".png")
  /\ \E i \in TaskIdx : /\ tasks[i].site.ref = RelRef("", Name("script", ".js"), "")
                        /\ tasks[i].path.name.stem = "image_"

====
